---- MODULE Spec2Model ----
(***************************************************************************)
(* TradeRecorder analyzer (backtrader/analyzers/traderecorder.py).         *)
(*                                                                         *)
(* One TradeRecorder object: its parameter p.mode, the hidden _tradeDict,  *)
(* the three result attributes of self.rets, and the calls the host makes  *)
(* on it: create_analysis, notify_trade, stop and print.  A call that      *)
(* raises leaves the object in the state the statements executed before    *)
(* the raise produced; the exception is recorded in lastErr.               *)
(*                                                                         *)
(* SpecPair runs two such objects, one per trades mode, on the same calls. *)
(* SpecOld runs the earlier recorder of traderecorderOLD.py.               *)
(***************************************************************************)
EXTENDS Integers, Sequences, FiniteSets, TLC

\* ------------------------------------------------------------------ bounds
MaxStops == 2       \* stop calls in one run
MaxIds == 2         \* distinct trade ids the host uses

\* ------------------------------------------------------------- input sets
TradeIds == 1..MaxIds
NoDate == 0                     \* close_datetime() of a trade never closed
ExitDates == {2, 3}             \* t2 < t3
PnlValues == {-2, 5}
OpenPnlValues == {5}            \* running pnlcomm of a trade not closed out
NoR == 0                        \* the Trade object has no attribute R
RValues == {NoR, 1}

ValidModes == {"trades", "equity", "trades+equity"}
Modes == ValidModes \cup {"trade"}

\* A Trade object as stop() reads it.  pnlcomm stands for the attributes
\* that are copied unconditionally into every row (entry_price,
\* open_datetime(), pnl, pnlcomm, long).  hasExit says that
\* close_datetime() and exit_price can be read without an error.
Trades ==
    { [tradeid |-> i, isopen |-> o, hasExit |-> h, exit_date |-> d,
       pnlcomm |-> p, R |-> r] :
         i \in TradeIds, o \in BOOLEAN, h \in BOOLEAN,
         d \in ExitDates \cup {NoDate}, p \in PnlValues, r \in RValues }

\* Trade objects the host can hand over: an exit date exists exactly for a
\* closed trade whose exit attributes are readable, and only such a trade
\* has a final pnlcomm.  exit_price and R are both additions to the public
\* Trade class, so a Trade without exit attributes has no R either.
HostTrades ==
    { t \in Trades :
        /\ IF (~t.isopen) /\ t.hasExit
           THEN t.exit_date \in ExitDates
           ELSE t.exit_date = NoDate /\ t.pnlcomm \in OpenPnlValues
        /\ (~t.hasExit) => t.R = NoR }

NoTrade == [tradeid |-> 0]

\* ------------------------------------------------------------ containers
\* A result attribute is unbound, a Python list, a DataFrame or None.
Unbound == [kind |-> "unbound", rows |-> << >>]
PyNone == [kind |-> "None", rows |-> << >>]
PyList(rows) == [kind |-> "list", rows |-> rows]
Frame(rows) == [kind |-> "frame", rows |-> rows]
PyDict(items) == [kind |-> "dict", rows |-> items]

VARIABLES
    pc,             \* "new" | "active" | "failed" (construction raised) |
                    \* "aborted" (stop raised and unwound the run)
    mode,           \* self.p.mode
    tradeDict,      \* self._tradeDict
    openTrades,     \* self.rets.openTrades
    closedTrades,   \* self.rets.closedTrades
    equityCurve,    \* self.rets.equityCurve
    retsClosed,     \* self.rets._close() has run: a stop() has returned
    printed,        \* the lengths the last call wrote (only print() writes)
    lastOp,         \* the last call made on the object
    lastErr,        \* "ok" or the exception that call raised
    recorded,       \* history: last Trade accepted by notify_trade, per id
    nStop,          \* history: number of stop calls
    pair,           \* SpecPair: two recorders fed the same notifications
    old             \* SpecOld: the recorder of traderecorderOLD.py

vars == << pc, mode, tradeDict, openTrades, closedTrades, equityCurve,
           retsClosed, printed, lastOp, lastErr, recorded, nStop, pair,
           old >>

rets == << openTrades, closedTrades, equityCurve >>

\* ------------------------------------------------------------------ helpers
TradesModes == {"trades", "trades+equity"}      \* lines 193, 216
OpenModes == {"trade", "trades+equity"}         \* line 179
EquityModes == {"equity", "trades+equity"}      \* line 233

RECURSIVE IndexOfId(_, _, _)
IndexOfId(items, id, i) ==
    IF i > Len(items) THEN 0
    ELSE IF items[i].tradeid = id THEN i
    ELSE IndexOfId(items, id, i + 1)

\* A mutation of DictSet: the first Trade stored under a key is kept.
DictSetFirstWins(items, t) ==
    IF IndexOfId(items, t.tradeid, 1) = 0 THEN Append(items, t) ELSE items

\* A mutation of DictSet: the dict is rebuilt around the new Trade.
DictSetReplaceAll(items, t) == << t >>

\* self._tradeDict[trade.tradeid] = trade: a dict keeps the position of a
\* key that is assigned again.
DictSet(items, t) ==
    LET i == IndexOfId(items, t.tradeid, 1) IN
    IF i = 0 THEN Append(items, t)
    ELSE [items EXCEPT ![i] = t]

\* A mutation of BaseRow: the branch without R_stop is taken for every trade.
BaseRowNoR(t) ==
    [tradeid |-> t.tradeid, pnlcomm |-> t.pnlcomm, R_stop |-> NoR,
     hasExitCols |-> FALSE, exit_date |-> NoDate]

\* The row built for every trade (lines 159-176): R_stop only with R.
BaseRow(t) ==
    [tradeid |-> t.tradeid, pnlcomm |-> t.pnlcomm, R_stop |-> t.R,
     hasExitCols |-> FALSE, exit_date |-> NoDate]

\* The row after lines 198-199 added exit_date and exit_price.
ClosedRow(t) ==
    [BaseRow(t) EXCEPT !.hasExitCols = TRUE, !.exit_date = t.exit_date]

\* x.append(row) on a result attribute: a list grows, None has no append.
AppendTo(c, row) ==
    IF c.kind = "list" THEN [c |-> PyList(Append(c.rows, row)), err |-> "ok"]
    ELSE [c |-> c, err |-> "AttributeError"]

\* A mutation of LoopStep: a trade without exit data is logged and skipped.
LoopStepSwallow(cur, t, m) ==
    IF cur.err # "ok" THEN cur
    ELSE IF t.isopen /\ m \in OpenModes THEN
        LET a == AppendTo(cur.open, BaseRow(t)) IN
        [open |-> a.c, closed |-> cur.closed, err |-> a.err]
    ELSE IF m \in TradesModes THEN
        IF ~t.hasExit THEN cur
        ELSE LET a == AppendTo(cur.closed, ClosedRow(t)) IN
             [open |-> cur.open, closed |-> a.c, err |-> a.err]
    ELSE cur

\* A mutation of LoopStep: an open trade is never treated as closed.
LoopStepDropOpen(cur, t, m) ==
    IF cur.err # "ok" THEN cur
    ELSE IF t.isopen /\ m \in OpenModes THEN
        LET a == AppendTo(cur.open, BaseRow(t)) IN
        [open |-> a.c, closed |-> cur.closed, err |-> a.err]
    ELSE IF (~t.isopen) /\ m \in TradesModes THEN
        IF ~t.hasExit THEN
            [open |-> cur.open, closed |-> cur.closed,
             err |-> "AttributeError"]
        ELSE LET a == AppendTo(cur.closed, ClosedRow(t)) IN
             [open |-> cur.open, closed |-> a.c, err |-> a.err]
    ELSE cur

\* One pass of the for loop of stop() (lines 149-210) for trade t.
LoopStep(cur, t, m) ==
    IF cur.err # "ok" THEN cur
    ELSE IF t.isopen /\ m \in OpenModes THEN
        LET a == AppendTo(cur.open, BaseRow(t)) IN
        [open |-> a.c, closed |-> cur.closed, err |-> a.err]
    ELSE IF m \in TradesModes THEN
        IF ~t.hasExit THEN
            [open |-> cur.open, closed |-> cur.closed,
             err |-> "AttributeError"]
        ELSE LET a == AppendTo(cur.closed, ClosedRow(t)) IN
             [open |-> cur.open, closed |-> a.c, err |-> a.err]
    ELSE cur

\* The for loop of stop() over the dict in insertion order (line 147).
RECURSIVE StopLoop(_, _, _, _)
StopLoop(items, i, cur, m) ==
    IF i > Len(items) THEN cur
    ELSE StopLoop(items, i + 1, LoopStep(cur, items[i], m), m)

\* pd.concat(x).reset_index(drop=True) if x != [] else None (lines 217-220).
\* Only a list gets through; a DataFrame or None makes the expression raise.
ConcatOrNone(c) ==
    IF c.kind # "list" THEN [c |-> c, err |-> "TypeError"]
    ELSE IF c.rows = << >> THEN [c |-> PyNone, err |-> "ok"]
    ELSE [c |-> Frame(c.rows), err |-> "ok"]

Perms(n) ==
    { p \in [1..n -> 1..n] : \A i, j \in 1..n : i # j => p[i] # p[j] }

\* A mutation of SortOrders: the rows are left in insertion order.
SortOrdersUnsorted(rows) ==
    { [i \in 1..Len(rows) |-> i] }

\* _df.sort_values(['exit_date'], ascending=True) (line 235): the default
\* sort kind is not a stable one, so every ascending order is an outcome.
SortOrders(rows) ==
    { p \in Perms(Len(rows)) :
        \A i \in 1..(Len(rows) - 1) :
            rows[p[i]].exit_date <= rows[p[i + 1]].exit_date }

RECURSIVE CumSum(_, _, _)
CumSum(rows, p, k) ==
    IF k = 0 THEN 0 ELSE CumSum(rows, p, k - 1) + rows[p[k]].pnlcomm

\* A mutation of EquityRows: the bracketing algorithm of calc_equity, which
\* puts a zero point in front of the first trade.
EquityRowsBracketed(rows, p) ==
    << [date |-> NoDate, equity |-> 0] >> \o
    [k \in 1..Len(rows) |->
        [date |-> rows[p[k]].exit_date, equity |-> CumSum(rows, p, k)]]

\* Lines 234-238: the two columns in sorted order, pnlcomm accumulated.
EquityRows(rows, p) ==
    [k \in 1..Len(rows) |->
        [date |-> rows[p[k]].exit_date, equity |-> CumSum(rows, p, k)]]

\* len(x) in print(): None has no len().
HasLen(c) == c.kind \in {"list", "frame"}


\* ------------------------------------------------------------ operations
\* A mutation of NotifyOutcome: a notification after stop() is ignored.
NotifyOutcomeSilent(dict, t) ==
    IF dict.kind = "dict"
    THEN [dict |-> PyDict(DictSet(dict.rows, t)), err |-> "ok"]
    ELSE [dict |-> dict, err |-> "ok"]

\* A mutation of NotifyOutcome: a notification after stop() makes a new dict.
NotifyOutcomeRevive(dict, t) ==
    IF dict.kind = "dict"
    THEN [dict |-> PyDict(DictSet(dict.rows, t)), err |-> "ok"]
    ELSE [dict |-> PyDict(<< t >>), err |-> "ok"]

\* notify_trade (lines 137-142): item assignment on the dict, which raises
\* TypeError once stop() has set _tradeDict to None.
NotifyOutcome(dict, t) ==
    IF dict.kind = "dict"
    THEN [dict |-> PyDict(DictSet(dict.rows, t)), err |-> "ok"]
    ELSE [dict |-> dict, err |-> "TypeError"]

\* A mutation of KilledDict: line 248 is left out.
KeptDict(dict) == dict

\* self._tradeDict = None (line 248).
KilledDict(dict) == PyNone

\* A mutation of Outcome: the dict is killed however stop() ends.
OutcomeKill(dict, open, closed, equity, err) ==
    [dict |-> PyNone, open |-> open, closed |-> closed, equity |-> equity,
     err |-> err]

\* What one stop() call leaves behind.
Outcome(dict, open, closed, equity, err) ==
    [dict |-> dict, open |-> open, closed |-> closed, equity |-> equity,
     err |-> err]

\* stop() (lines 145-249): every state it can leave the object in, with the
\* exception it raised.  Statements run in source order, so a raise keeps
\* what the earlier statements assigned.
StopOutcomes(dict, open, closed, equity, m) ==
    IF dict.kind # "dict"
    THEN { Outcome(dict, open, closed, equity, "TypeError") }   \* line 147
    ELSE
    LET loop == StopLoop(dict.rows, 1,
                         [open |-> open, closed |-> closed, err |-> "ok"],
                         m)
        cc == IF m \in TradesModes THEN ConcatOrNone(loop.closed)
              ELSE [c |-> PyNone, err |-> "ok"]
        oo == IF m \in TradesModes THEN ConcatOrNone(loop.open)
              ELSE [c |-> PyNone, err |-> "ok"]
    IN
    IF loop.err # "ok"
    THEN { Outcome(dict, loop.open, loop.closed, equity, loop.err) }
    ELSE IF cc.err # "ok"                                       \* line 217
    THEN { Outcome(dict, loop.open, loop.closed, equity, cc.err) }
    ELSE IF oo.err # "ok"                                       \* line 219
    THEN { Outcome(dict, loop.open, cc.c, equity, oo.err) }
    ELSE IF m \in EquityModes
    THEN IF cc.c.kind # "frame"                                 \* line 234
         THEN { Outcome(dict, oo.c, cc.c, equity, "TypeError") }
         ELSE { Outcome(KilledDict(dict), oo.c, cc.c,
                        Frame(EquityRows(cc.c.rows, p)), "ok") :
                    p \in SortOrders(cc.c.rows) }
    ELSE { Outcome(KilledDict(dict), oo.c, cc.c, PyNone, "ok") }

\* print() (lines 301-308): the two len() calls in order.
PrintOutcome(open, closed) ==
    IF ~HasLen(open) THEN [out |-> << >>, err |-> "TypeError"]
    ELSE IF ~HasLen(closed)
    THEN [out |-> << Len(open.rows) >>, err |-> "TypeError"]
    ELSE [out |-> << Len(open.rows), Len(closed.rows) >>, err |-> "ok"]

\* ------------------------------------------------ two recorders, one input
\* A recorder after create_analysis with mode m.
NewLedger(m) ==
    [mode |-> m, dict |-> PyDict(<< >>), open |-> PyList(<< >>),
     closed |-> PyList(<< >>), equity |-> PyList(<< >>), err |-> "ok",
     stopped |-> FALSE]

LedgerNotify(l, t) ==
    LET r == NotifyOutcome(l.dict, t) IN
    [l EXCEPT !.dict = r.dict, !.err = r.err]

LedgerStop(l, r) ==
    [l EXCEPT !.dict = r.dict, !.open = r.open, !.closed = r.closed,
              !.equity = r.equity, !.err = r.err, !.stopped = TRUE]

\* ------------------------------------------------- traderecorderOLD.py
\* The dict built for an open trade (OLD lines 82-89).
OldOpenRow(t) ==
    [tradeid |-> t.tradeid, pnlcomm |-> t.pnlcomm, R |-> t.R,
     hasExitCols |-> FALSE, exit_date |-> NoDate]

\* The dict built for a closed trade (OLD lines 94-103).
OldClosedRow(t) ==
    [tradeid |-> t.tradeid, pnlcomm |-> t.pnlcomm, R |-> t.R,
     hasExitCols |-> TRUE, exit_date |-> t.exit_date]

\* One pass of the loop of the old stop() (OLD lines 72-106).  The closed
\* branch ends in rets.equityCurve.append(... trade.pnlcomm()): rets has no
\* equityCurve list and pnlcomm is a number, not a method, so it raises
\* after the row was appended to closedTrades.
OldLoopStep(cur, t) ==
    IF cur.err # "ok" THEN cur
    ELSE IF t.isopen
    THEN [cur EXCEPT !.open = Append(cur.open, OldOpenRow(t))]
    ELSE IF ~t.hasExit
    THEN [cur EXCEPT !.err = "AttributeError"]
    ELSE [cur EXCEPT !.closed = Append(cur.closed, OldClosedRow(t)),
                     !.err = "TypeError"]

RECURSIVE OldStopLoop(_, _, _)
OldStopLoop(items, i, cur) ==
    IF i > Len(items) THEN cur
    ELSE OldStopLoop(items, i + 1, OldLoopStep(cur, items[i]))

\* The old stop() (OLD lines 66-113).
OldStopOutcome(o) ==
    IF o.dict.kind # "dict"
    THEN [o EXCEPT !.err = "TypeError"]                     \* OLD line 70
    ELSE LET loop == OldStopLoop(o.dict.rows, 1,
                         [open |-> o.open, closed |-> o.closed,
                          err |-> "ok"])
         IN [o EXCEPT !.open = loop.open, !.closed = loop.closed,
                      !.err = loop.err,
                      !.dict = IF loop.err = "ok" THEN PyNone ELSE o.dict,
                      !.run = IF loop.err = "ok" THEN "active"
                              ELSE "aborted"]

\* The old notify_trade (OLD lines 55-62).
OldNotifyOutcome(o, t) ==
    IF o.dict.kind = "dict"
    THEN [o EXCEPT !.dict = PyDict(DictSet(o.dict.rows, t)),
                   !.rec = [o.rec EXCEPT ![t.tradeid] = t],
                   !.err = "ok"]
    ELSE [o EXCEPT !.err = "TypeError"]

\* The old recorder after create_analysis (OLD lines 42-52).
OldInit ==
    [dict |-> PyDict(<< >>), open |-> << >>, closed |-> << >>,
     err |-> "ok", op |-> "create_analysis", run |-> "active",
     nStop |-> 0, rec |-> [i \in TradeIds |-> NoTrade]]

\* --------------------------------------------------------------- actions
Init ==
    /\ pc = "new"
    /\ mode \in Modes
    /\ tradeDict = Unbound
    /\ openTrades = Unbound
    /\ closedTrades = Unbound
    /\ equityCurve = Unbound
    /\ retsClosed = FALSE
    /\ printed = << >>
    /\ lastOp = "none"
    /\ lastErr = "ok"
    /\ recorded = [i \in TradeIds |-> NoTrade]
    /\ nStop = 0
    /\ pair = << NewLedger("trades"), NewLedger("trades+equity") >>
    /\ old = OldInit

\* create_analysis (lines 117-134): the attributes are bound before the
\* mode is checked.
CreateAnalysis ==
    /\ pc = "new"
    /\ openTrades' = PyList(<< >>)
    /\ closedTrades' = PyList(<< >>)
    /\ equityCurve' = PyList(<< >>)
    /\ tradeDict' = PyDict(<< >>)
    /\ lastOp' = "create_analysis"
    /\ IF mode \notin ValidModes
       THEN pc' = "failed" /\ lastErr' = "Exception"
       ELSE pc' = "active" /\ lastErr' = "ok"
    /\ UNCHANGED << mode, retsClosed, printed, recorded, nStop, pair, old >>

NotifyTrade(t) ==
    /\ pc = "active"
    /\ LET r == NotifyOutcome(tradeDict, t) IN
        /\ tradeDict' = r.dict
        /\ lastErr' = r.err
        /\ recorded' = IF r.err = "ok"
                       THEN [recorded EXCEPT ![t.tradeid] = t]
                       ELSE recorded
    /\ lastOp' = "notify_trade"
    /\ printed' = << >>
    /\ UNCHANGED << pc, mode, openTrades, closedTrades, equityCurve,
                    retsClosed, nStop, pair, old >>

\* stop().  An exception that leaves stop() while the dict is still bound
\* unwinds the host's run: the object gets no further notify_trade or stop.
Stop ==
    /\ pc = "active"
    /\ nStop < MaxStops
    /\ \E r \in StopOutcomes(tradeDict, openTrades, closedTrades,
                             equityCurve, mode) :
        /\ tradeDict' = r.dict
        /\ openTrades' = r.open
        /\ closedTrades' = r.closed
        /\ equityCurve' = r.equity
        /\ lastErr' = r.err
        /\ retsClosed' = (retsClosed \/ r.err = "ok")           \* line 249
        /\ pc' = IF r.err # "ok" /\ r.dict.kind = "dict"
                 THEN "aborted" ELSE pc
    /\ lastOp' = "stop"
    /\ nStop' = nStop + 1
    /\ printed' = << >>
    /\ UNCHANGED << mode, recorded, pair, old >>

PrintSummary ==
    /\ pc \in {"active", "aborted"}
    /\ LET r == PrintOutcome(openTrades, closedTrades) IN
        /\ printed' = r.out
        /\ lastErr' = r.err
    /\ lastOp' = "print"
    /\ UNCHANGED << pc, mode, tradeDict, openTrades, closedTrades,
                    equityCurve, retsClosed, recorded, nStop, pair, old >>

Next ==
    \/ CreateAnalysis
    \/ \E t \in HostTrades : NotifyTrade(t)
    \/ Stop
    \/ PrintSummary

Spec == Init /\ [][Next]_vars

\* ---- two recorders that differ only in mode, fed the same notifications
single == << pc, mode, tradeDict, openTrades, closedTrades, equityCurve,
            retsClosed, printed, lastOp, lastErr, recorded, nStop >>

PairInit == Init /\ mode = "trades"

PairNotify(t) ==
    /\ ~pair[1].stopped
    /\ pair' = << LedgerNotify(pair[1], t), LedgerNotify(pair[2], t) >>
    /\ UNCHANGED << single, old >>

PairStop ==
    /\ ~pair[1].stopped
    /\ \E r1 \in StopOutcomes(pair[1].dict, pair[1].open, pair[1].closed,
                              pair[1].equity, pair[1].mode),
          r2 \in StopOutcomes(pair[2].dict, pair[2].open, pair[2].closed,
                              pair[2].equity, pair[2].mode) :
            pair' = << LedgerStop(pair[1], r1), LedgerStop(pair[2], r2) >>
    /\ UNCHANGED << single, old >>

PairNext ==
    \/ \E t \in HostTrades : PairNotify(t)
    \/ PairStop

SpecPair == PairInit /\ [][PairNext]_vars

\* ---- the recorder of traderecorderOLD.py
OldNotifyTrade(t) ==
    /\ old.run = "active"
    /\ old' = [OldNotifyOutcome(old, t) EXCEPT !.op = "notify_trade"]
    /\ UNCHANGED << single, pair >>

OldStop ==
    /\ old.run = "active"
    /\ old.nStop < MaxStops
    /\ old' = [OldStopOutcome(old) EXCEPT !.op = "stop",
                                          !.nStop = old.nStop + 1]
    /\ UNCHANGED << single, pair >>

OldNext ==
    \/ \E t \in HostTrades : OldNotifyTrade(t)
    \/ OldStop

SpecOld == PairInit /\ [][OldNext]_vars


\* ---------------------------------------------------------------- claims
RecordedIds == { id \in TradeIds : recorded[id] # NoTrade }
OpenIds == { id \in RecordedIds : recorded[id].isopen }
ClosedIds == { id \in RecordedIds : ~recorded[id].isopen }
MissingExit == \E id \in ClosedIds : ~recorded[id].hasExit

RowsFor(c, id) == { i \in 1..Len(c.rows) : c.rows[i].tradeid = id }
IsEmpty(c) == c.rows = << >>

\* The only stop() call made so far has returned.
FirstStopReturned == nStop = 1 /\ retsClosed

RECURSIVE SumPnl(_, _)
SumPnl(f, k) ==
    IF k = 0 THEN 0 ELSE SumPnl(f, k - 1) + recorded[f[k]].pnlcomm

\* C1: when stop() has returned in a mode that includes trades, the two
\* trade frames together hold exactly one row for every trade id that was
\* recorded, carrying the values of the last Trade recorded under that id,
\* and no row for an id that was never recorded.
C1_LastWriteWins ==
    (FirstStopReturned /\ mode \in TradesModes) =>
        \A id \in TradeIds :
            LET o == RowsFor(openTrades, id)
                c == RowsFor(closedTrades, id)
            IN  IF recorded[id] = NoTrade THEN o = {} /\ c = {}
                ELSE /\ Cardinality(o) + Cardinality(c) = 1
                     /\ \A i \in o :
                          /\ openTrades.rows[i].pnlcomm = recorded[id].pnlcomm
                          /\ openTrades.rows[i].R_stop = recorded[id].R
                     /\ \A i \in c :
                          /\ closedTrades.rows[i].pnlcomm = recorded[id].pnlcomm
                          /\ closedTrades.rows[i].R_stop = recorded[id].R
                          /\ closedTrades.rows[i].exit_date =
                                 recorded[id].exit_date

\* C1 witness: stop() returned in mode 'trades+equity' with one id last
\* recorded open and the other last recorded closed, one row in each frame.
C1_Witness ==
    /\ FirstStopReturned
    /\ mode = "trades+equity"
    /\ OpenIds # {}
    /\ ClosedIds # {}
    /\ openTrades.kind = "frame"
    /\ closedTrades.kind = "frame"

\* C2: when stop() has returned in a mode that includes trades, a trade whose
\* last snapshot is open is in openTrades and not in closedTrades, and a
\* trade whose last snapshot is closed is in closedTrades and not in
\* openTrades.
C2_Partition ==
    (FirstStopReturned /\ mode \in TradesModes) =>
        \A id \in RecordedIds :
            IF recorded[id].isopen
            THEN /\ Cardinality(RowsFor(openTrades, id)) = 1
                 /\ RowsFor(closedTrades, id) = {}
            ELSE /\ Cardinality(RowsFor(closedTrades, id)) = 1
                 /\ RowsFor(openTrades, id) = {}

\* C3: in mode 'equity', with at least one closed trade recorded (all of
\* them with exit data), stop() completes without error and leaves empty
\* trade partitions and a populated equity curve.
C3_EquityMode ==
    (/\ mode = "equity"
     /\ lastOp = "stop"
     /\ nStop = 1
     /\ ClosedIds # {}
     /\ ~MissingExit) =>
        /\ lastErr = "ok"
        /\ IsEmpty(openTrades)
        /\ IsEmpty(closedTrades)
        /\ equityCurve.kind = "frame"
        /\ ~IsEmpty(equityCurve)

\* C4: in each valid mode, stop() on a ledger with no closed trade recorded
\* completes without error, with an empty closed partition and an empty
\* equity curve, and with an empty open partition when nothing was recorded.
C4_EmptyLedger ==
    (/\ mode \in ValidModes
     /\ lastOp = "stop"
     /\ nStop = 1
     /\ ClosedIds = {}) =>
        /\ lastErr = "ok"
        /\ IsEmpty(closedTrades)
        /\ IsEmpty(equityCurve)
        /\ (RecordedIds = {} => IsEmpty(openTrades))

C7_CountConservation ==
    (FirstStopReturned /\ mode \in TradesModes) =>
        /\ Len(openTrades.rows) + Len(closedTrades.rows) =
               Cardinality(RecordedIds)
        /\ (lastOp = "print" /\ lastErr = "ok") =>
               printed[1] + printed[2] = Cardinality(RecordedIds)

\* C7 witness: print() after stop() reported one open and one closed trade.
C7_Witness ==
    /\ FirstStopReturned
    /\ mode \in TradesModes
    /\ lastOp = "print"
    /\ lastErr = "ok"
    /\ printed = << 1, 1 >>
    /\ Cardinality(RecordedIds) = 2

\* C8 (as stated): a stop() that directly follows a stop() that returned
\* completes without error and leaves the same three results.
C8_IdempotentStop ==
    [][(lastOp = "stop" /\ lastErr = "ok" /\ nStop' = nStop + 1) =>
           (lastErr' = "ok" /\ rets' = rets)]_vars

\* C8 (amended): a stop() that directly follows a stop() that returned
\* raises TypeError and leaves the three results and the unbound dict
\* exactly as the first call left them.
C8_SecondStopFails ==
    [][(lastOp = "stop" /\ lastErr = "ok" /\ nStop' = nStop + 1) =>
           (lastErr' = "TypeError" /\ rets' = rets
            /\ tradeDict' = tradeDict)]_vars

\* C8 witness: the second stop() has raised, the results of the first call
\* (with at least one closed trade) are in place.
C8_Witness ==
    /\ nStop = 2
    /\ retsClosed
    /\ lastOp = "stop"
    /\ lastErr = "TypeError"
    /\ closedTrades.kind = "frame"

\* C9: once a stop() has returned, every notify_trade raises and leaves
\* openTrades, closedTrades and equityCurve unchanged.
C9_RecordAfterFinalize ==
    [][(retsClosed /\ lastOp' = "notify_trade") =>
           (lastErr' = "TypeError" /\ rets' = rets)]_vars

\* C9 witness: a notify_trade after stop() has raised, with results there.
C9_Witness ==
    /\ retsClosed
    /\ lastOp = "notify_trade"
    /\ lastErr = "TypeError"
    /\ closedTrades.kind = "frame"

\* C10: in every valid mode, while some trade whose last snapshot is closed
\* has no exit data, no stop() returns: each stop() call raises, and no
\* equity curve is produced.
C10_MissingExitData ==
    MissingExit =>
        /\ ~retsClosed
        /\ equityCurve.kind # "frame"
        /\ (lastOp = "stop" => lastErr # "ok")

\* C10 witness: stop() in mode 'trades' raised on a closed trade without
\* exit data.
C10_Witness ==
    /\ MissingExit
    /\ mode = "trades"
    /\ lastOp = "stop"
    /\ lastErr = "AttributeError"


\* C11: create_analysis raises for a mode outside 'trades', 'equity',
\* 'trades+equity' before any notify_trade is accepted, succeeds for those
\* three, and every mode value that stop() tests for trades is one that
\* create_analysis accepts.
C11_ModeValidation ==
    /\ (mode \notin ValidModes =>
            /\ pc \in {"new", "failed"}
            /\ RecordedIds = {}
            /\ (pc = "failed" => lastErr = "Exception"))
    /\ (mode \in ValidModes => pc # "failed")
    /\ (mode \in OpenModes \cup TradesModes => pc # "failed")

\* C12: when stop() has returned in mode 'trades' with at least one open
\* and one closed trade recorded, the equity curve is empty and openTrades
\* and closedTrades are both non-empty.
C12_TradesMode ==
    (/\ FirstStopReturned
     /\ mode = "trades"
     /\ OpenIds # {}
     /\ ClosedIds # {}) =>
        /\ IsEmpty(equityCurve)
        /\ ~IsEmpty(openTrades)
        /\ ~IsEmpty(closedTrades)

\* C13: print() succeeds in every state of a validly constructed object and
\* reports the two lengths.
C13_SummarySucceeds ==
    lastOp = "print" => (lastErr = "ok" /\ Len(printed) = 2)

\* C15: the dict is unbound exactly when a stop() has returned: a stop()
\* that returns leaves _tradeDict None with no snapshot in it, and once
\* None it is never bound again.
C15_TearDown ==
    [][/\ (retsClosed' <=> tradeDict' = PyNone)
       /\ (tradeDict = PyNone => tradeDict' = PyNone)
       /\ ((nStop' = nStop + 1 /\ lastErr' = "ok") =>
               (tradeDict.kind = "dict" /\ tradeDict' = PyNone))]_vars

\* C15 witness: a stop() over a non-empty dict has just returned.
C15_Witness ==
    /\ lastOp = "stop"
    /\ lastErr = "ok"
    /\ tradeDict = PyNone
    /\ RecordedIds # {}

\* C16: when stop() has returned in a mode that includes equity, closed
\* trades with the same exit date appear in the curve in the order of
\* their first notify_trade, which fixes the cumulative values at the tie.
C16_StableTieBreak ==
    (FirstStopReturned /\ mode \in EquityModes) =>
        \E p \in SortOrders(closedTrades.rows) :
            /\ \A i, j \in 1..Len(closedTrades.rows) :
                   (/\ i < j
                    /\ closedTrades.rows[p[i]].exit_date =
                           closedTrades.rows[p[j]].exit_date) => p[i] < p[j]
            /\ equityCurve.rows = EquityRows(closedTrades.rows, p)

Lookup(items, id) ==
    IF IndexOfId(items, id, 1) = 0 THEN NoTrade
    ELSE items[IndexOfId(items, id, 1)]

\* C17: a notify_trade on a bound dict changes only the entry of the
\* notified trade id: the entries of all other ids, the mode and the three
\* results stay as they were.
C17_RecordFrame ==
    [][(tradeDict.kind = "dict" /\ lastOp' = "notify_trade") =>
           /\ mode' = mode
           /\ rets' = rets
           /\ lastErr' = "ok"
           /\ \E n \in TradeIds :
                /\ Lookup(tradeDict'.rows, n) # NoTrade
                /\ \A id \in TradeIds \ {n} :
                     Lookup(tradeDict'.rows, id) = Lookup(tradeDict.rows, id)
                /\ Len(tradeDict'.rows) =
                     Len(tradeDict.rows)
                       + (IF Lookup(tradeDict.rows, n) = NoTrade
                          THEN 1 ELSE 0)]_vars

\* C17 witness: the second id was notified while the first was stored.
C17_Witness ==
    /\ pc = "active"
    /\ lastOp = "notify_trade"
    /\ lastErr = "ok"
    /\ tradeDict.kind = "dict"
    /\ Len(tradeDict.rows) = 2
    /\ nStop = 0

\* C18 (as stated): a stop() that raises leaves the dict and the three
\* results as they were before the call.
C18_FailureAtomic ==
    [][(nStop' = nStop + 1 /\ lastErr' # "ok") =>
           (tradeDict' = tradeDict /\ rets' = rets)]_vars

\* C18 (amended): a stop() that raises leaves the dict, with every
\* recorded snapshot, and the equity curve as they were before the call.
C18_FailureKeepsDict ==
    [][(nStop' = nStop + 1 /\ lastErr' # "ok") =>
           (tradeDict' = tradeDict /\ equityCurve' = equityCurve)]_vars

\* C18 witness: stop() raised on a trade without exit data after it had
\* appended a row; the dict is still bound.
C18_Witness ==
    /\ lastOp = "stop"
    /\ lastErr = "AttributeError"
    /\ tradeDict.kind = "dict"
    /\ Len(tradeDict.rows) = 2
    /\ closedTrades.kind = "list"
    /\ Len(closedTrades.rows) = 1

SameButR(a, b) ==
    /\ a.isopen = b.isopen
    /\ a.hasExit = b.hasExit
    /\ a.exit_date = b.exit_date
    /\ a.pnlcomm = b.pnlcomm

\* C19: when stop() has returned in a mode that includes trades, a row has
\* R_stop exactly when the last Trade recorded under its id has R, and two
\* trades that differ only in R land in the same frame with the same other
\* fields.
C19_OptionalR ==
    (FirstStopReturned /\ mode \in TradesModes) =>
        /\ \A id \in RecordedIds :
             /\ \A i \in RowsFor(openTrades, id) :
                    openTrades.rows[i].R_stop = recorded[id].R
             /\ \A i \in RowsFor(closedTrades, id) :
                    closedTrades.rows[i].R_stop = recorded[id].R
        /\ \A a, b \in RecordedIds :
             SameButR(recorded[a], recorded[b]) =>
                /\ (RowsFor(openTrades, a) = {}) <=>
                       (RowsFor(openTrades, b) = {})
                /\ (RowsFor(closedTrades, a) = {}) <=>
                       (RowsFor(closedTrades, b) = {})
                /\ \A i \in RowsFor(closedTrades, a),
                      j \in RowsFor(closedTrades, b) :
                       [closedTrades.rows[i] EXCEPT !.tradeid = 0,
                                                    !.R_stop = NoR] =
                       [closedTrades.rows[j] EXCEPT !.tradeid = 0,
                                                    !.R_stop = NoR]
                /\ \A i \in RowsFor(openTrades, a),
                      j \in RowsFor(openTrades, b) :
                       [openTrades.rows[i] EXCEPT !.tradeid = 0,
                                                  !.R_stop = NoR] =
                       [openTrades.rows[j] EXCEPT !.tradeid = 0,
                                                  !.R_stop = NoR]

\* C19 witness: two closed trades that differ only in R, one row with
\* R_stop and one without, both in closedTrades.
C19_Witness ==
    /\ FirstStopReturned
    /\ mode \in TradesModes
    /\ Len(closedTrades.rows) = 2
    /\ closedTrades.rows[1].R_stop = NoR
    /\ closedTrades.rows[2].R_stop # NoR
    /\ recorded[1].R # recorded[2].R
    /\ SameButR(recorded[1], recorded[2])


\* C14: for the same notifications, when both stop() calls have returned,
\* openTrades and closedTrades of the recorder in mode 'trades' equal those
\* of the recorder in mode 'trades+equity'.
C14_ModeIndependentTrades ==
    (/\ pair[1].stopped /\ pair[1].err = "ok"
     /\ pair[2].stopped /\ pair[2].err = "ok") =>
        /\ pair[1].open = pair[2].open
        /\ pair[1].closed = pair[2].closed

OldRowsFor(rows, id) == { i \in 1..Len(rows) : rows[i].tradeid = id }

\* C20: the first stop() of the old recorder, on trades whose exit data can
\* be read when they are closed, completes, leaves one entry in openTrades
\* per id whose last snapshot is open and one in closedTrades per id whose
\* last snapshot is closed, and unbinds the dict.
C20_LegacyStop ==
    (/\ old.op = "stop"
     /\ old.nStop = 1
     /\ \A id \in TradeIds :
          (old.rec[id] # NoTrade /\ ~old.rec[id].isopen) =>
              old.rec[id].hasExit) =>
        /\ old.err = "ok"
        /\ old.dict = PyNone
        /\ \A id \in TradeIds :
             LET isOpen == old.rec[id] # NoTrade /\ old.rec[id].isopen
                 isClosed == old.rec[id] # NoTrade /\ ~old.rec[id].isopen
             IN /\ Cardinality(OldRowsFor(old.open, id)) =
                       (IF isOpen THEN 1 ELSE 0)
                /\ Cardinality(OldRowsFor(old.closed, id)) =
                       (IF isClosed THEN 1 ELSE 0)

====
